---- MODULE Spec2Model ----
(***************************************************************************)
(* Form-element and select-list keywords of SeleniumLibrary                *)
(* (keywords/formelement.py, keywords/selectelement.py).                   *)
(*                                                                         *)
(* The page is the state: checkboxes, one page of radio buttons and one    *)
(* select list.  Every keyword is one action: it resolves its locator,     *)
(* issues its driver calls against the page and ends with an outcome       *)
(* ("PASS" or the name of the raised exception).  The last keyword calls   *)
(* are recorded with the driver calls they issued.                         *)
(***************************************************************************)
EXTENDS Integers, Sequences, FiniteSets, TLC

\* Bounds of the explored pages and calls.
MaxButtons == 2
MaxOptions == 2
MaxItems == 2

VARIABLES
    checked,        \* checkbox locator -> is_selected()
    cbHist,         \* the last two checkbox keyword calls
    page,           \* the radio buttons of the page, in document order
    radioSelected,  \* indices of the radio buttons reporting is_selected()
    rbHist,         \* the last two radio keyword calls
    options,        \* select.options, in document order
    is_multiple,    \* select.is_multiple
    selected,       \* indices of the selected options
    last,           \* the last select-list keyword call
    got,            \* what a get keyword called after it returned
    deselect_raises,\* whether the driver's deselect_by_* raise on no match
    matches,        \* locator -> tags of the elements it matches
    files,          \* the paths that are files of the local file system
    fmHist          \* the last two click_button / choose_file calls

vars == <<checked, cbHist, page, radioSelected, rbHist,
          options, is_multiple, selected, last, got, deselect_raises,
          matches, files, fmHist>>

cbVars == <<checked, cbHist>>
rbVars == <<page, radioSelected, rbHist>>
lsVars == <<options, is_multiple, selected, last, got, deselect_raises>>
fmVars == <<matches, files, fmHist>>

\* The history keeps the two most recent calls.
Keep2(h, r) == IF Len(h) < 2 THEN Append(h, r) ELSE <<h[2], r>>

\* No select-list keyword called yet.
NoCall ==
    [kw |-> "", locator |-> "", items |-> <<>>, before |-> {}, outcome |-> "",
     calls |-> <<>>, warns |-> <<>>, error |-> <<>>]

\* No get keyword called since the last select-list keyword.
NoReturn == [called |-> FALSE, locator |-> "", outcome |-> "", returned |-> <<>>]

(***************************************************************************)
(* Checkboxes                                                              *)
(***************************************************************************)
Checkboxes == {"cb1", "cb2"}
CbLocators == Checkboxes \cup {"nocb"}

\* _get_checkbox: find_element(locator, tag='input') finds the element or
\* raises ElementNotFound.
get_checkbox(loc) == loc \in Checkboxes

\* element.click() on a checkbox toggles it.
click_checkbox(ch, loc) == [ch EXCEPT ![loc] = ~@]

CbResult(ch, n, out) == [checked |-> ch, clicks |-> n, outcome |-> out]

select_checkbox_always_clicks(ch, loc) ==
    IF ~get_checkbox(loc) THEN CbResult(ch, 0, "ElementNotFound")
    ELSE CbResult(click_checkbox(ch, loc), 1, "PASS")

select_checkbox_inverted(ch, loc) ==
    IF ~get_checkbox(loc) THEN CbResult(ch, 0, "ElementNotFound")
    ELSE IF ch[loc] THEN CbResult(click_checkbox(ch, loc), 1, "PASS")
    ELSE CbResult(ch, 0, "PASS")

select_checkbox(ch, loc) ==
    IF ~get_checkbox(loc) THEN CbResult(ch, 0, "ElementNotFound")
    ELSE IF ~ch[loc] THEN CbResult(click_checkbox(ch, loc), 1, "PASS")
    ELSE CbResult(ch, 0, "PASS")

unselect_checkbox(ch, loc) ==
    IF ~get_checkbox(loc) THEN CbResult(ch, 0, "ElementNotFound")
    ELSE IF ch[loc] THEN CbResult(click_checkbox(ch, loc), 1, "PASS")
    ELSE CbResult(ch, 0, "PASS")

checkbox_should_be_selected(ch, loc) ==
    IF ~get_checkbox(loc) THEN CbResult(ch, 0, "ElementNotFound")
    ELSE IF ~ch[loc] THEN CbResult(ch, 0, "AssertionError")
    ELSE CbResult(ch, 0, "PASS")

checkbox_should_not_be_selected(ch, loc) ==
    IF ~get_checkbox(loc) THEN CbResult(ch, 0, "ElementNotFound")
    ELSE IF ch[loc] THEN CbResult(ch, 0, "AssertionError")
    ELSE CbResult(ch, 0, "PASS")

CbRecord(kw, loc, r) ==
    [kw |-> kw, locator |-> loc, before |-> checked,
     clicks |-> r.clicks, outcome |-> r.outcome]

SelectCheckbox ==
    \E loc \in CbLocators :
        LET r == select_checkbox(checked, loc)
        IN /\ checked' = r.checked
           /\ cbHist' = Keep2(cbHist, CbRecord("select_checkbox", loc, r))
           /\ UNCHANGED <<rbVars, lsVars, fmVars>>

UnselectCheckbox ==
    \E loc \in CbLocators :
        LET r == unselect_checkbox(checked, loc)
        IN /\ checked' = r.checked
           /\ cbHist' = Keep2(cbHist, CbRecord("unselect_checkbox", loc, r))
           /\ UNCHANGED <<rbVars, lsVars, fmVars>>

CheckboxShouldBeSelected ==
    \E loc \in CbLocators :
        LET r == checkbox_should_be_selected(checked, loc)
        IN /\ checked' = r.checked
           /\ cbHist' = Keep2(cbHist, CbRecord("checkbox_should_be_selected", loc, r))
           /\ UNCHANGED <<rbVars, lsVars, fmVars>>

CheckboxShouldNotBeSelected ==
    \E loc \in CbLocators :
        LET r == checkbox_should_not_be_selected(checked, loc)
        IN /\ checked' = r.checked
           /\ cbHist' = Keep2(cbHist, CbRecord("checkbox_should_not_be_selected", loc, r))
           /\ UNCHANGED <<rbVars, lsVars, fmVars>>

\* Checkboxes in any state, no keyword called yet; the radio buttons and the
\* select list are absent.
CheckboxInit ==
    /\ checked \in [Checkboxes -> BOOLEAN]
    /\ cbHist = <<>>
    /\ page = <<>>
    /\ radioSelected = {}
    /\ rbHist = <<>>
    /\ options = <<>>
    /\ is_multiple = FALSE
    /\ selected = {}
    /\ last = NoCall
    /\ got = NoReturn
    /\ deselect_raises = TRUE
    /\ matches = <<>>
    /\ files = {}
    /\ fmHist = <<>>

CheckboxNext ==
    \/ SelectCheckbox
    \/ UnselectCheckbox
    \/ CheckboxShouldBeSelected
    \/ CheckboxShouldNotBeSelected

SpecCheckbox == CheckboxInit /\ [][CheckboxNext]_vars

(***************************************************************************)
(* Radio buttons                                                           *)
(***************************************************************************)
GroupNames == {"g", "h"}
RadioValues == {"", "a"}
RadioIds == {"a", "b"}
RadioTargets == {"", "a", "b"}
RadioButtons == [name : GroupNames, value : RadioValues, id : RadioIds]

\* The result of _get_value_from_radio_buttons: None, or a value that may
\* be the empty string.
None == [isNone |-> TRUE, value |-> ""]
Value(v) == [isNone |-> FALSE, value |-> v]

\* _get_radio_buttons: find_elements("//input[@type='radio' and
\* @name='group_name']"), the matching buttons in document order.
get_radio_buttons(pg, group_name) ==
    LET F[k \in 0..Len(pg)] ==
            IF k = 0 THEN <<>>
            ELSE IF pg[k].name = group_name THEN Append(F[k-1], k)
            ELSE F[k-1]
    IN F[Len(pg)]

\* _get_radio_button_with_value: find_element of "//input[@type='radio' and
\* @name='group_name' and (@value='value' or @id='value')]", the first match
\* in document order; 0 stands for ElementNotFound.
get_radio_button_with_value(pg, group_name, value) ==
    LET F[k \in 0..Len(pg)] ==
            IF k = 0 THEN 0
            ELSE IF F[k-1] # 0 THEN F[k-1]
            ELSE IF /\ pg[k].name = group_name
                    /\ (pg[k].value = value \/ pg[k].id = value) THEN k
            ELSE 0
    IN F[Len(pg)]

\* _get_value_from_radio_buttons: the value of the first element reporting
\* selected, None when there is none.
RECURSIVE get_value_from_radio_buttons(_, _, _)
get_value_from_radio_buttons(pg, sel, elements) ==
    IF elements = <<>> THEN None
    ELSE IF Head(elements) \in sel THEN Value(pg[Head(elements)].value)
    ELSE get_value_from_radio_buttons(pg, sel, Tail(elements))

\* element.click() on a radio button checks it and unchecks the other
\* buttons of its group.
click_radio(pg, sel, i) ==
    (sel \ {j \in 1..Len(pg) : pg[j].name = pg[i].name}) \cup {i}

RbResult(sel, el, n, out) ==
    [radioSelected |-> sel, element |-> el, clicks |-> n, outcome |-> out]

select_radio_button_no_click(pg, sel, group_name, value) ==
    LET element == get_radio_button_with_value(pg, group_name, value)
    IN IF element = 0 THEN RbResult(sel, 0, 0, "ElementNotFound")
       ELSE RbResult(sel, element, 0, "PASS")

select_radio_button(pg, sel, group_name, value) ==
    LET element == get_radio_button_with_value(pg, group_name, value)
    IN IF element = 0 THEN RbResult(sel, 0, 0, "ElementNotFound")
       ELSE IF element \notin sel
            THEN RbResult(click_radio(pg, sel, element), element, 1, "PASS")
       ELSE RbResult(sel, element, 0, "PASS")

radio_button_should_be_set_to(pg, sel, group_name, value) ==
    LET elements == get_radio_buttons(pg, group_name)
        actual_value == get_value_from_radio_buttons(pg, sel, elements)
    IN IF elements = <<>> THEN RbResult(sel, 0, 0, "ElementNotFound")
       ELSE IF actual_value.isNone \/ actual_value.value # value
            THEN RbResult(sel, 0, 0, "AssertionError")
       ELSE RbResult(sel, 0, 0, "PASS")

radio_button_should_not_be_selected_truthy(pg, sel, group_name) ==
    LET elements == get_radio_buttons(pg, group_name)
        actual_value == get_value_from_radio_buttons(pg, sel, elements)
    IN IF elements = <<>> THEN RbResult(sel, 0, 0, "ElementNotFound")
       ELSE IF ~actual_value.isNone /\ actual_value.value # ""
            THEN RbResult(sel, 0, 0, "AssertionError")
       ELSE RbResult(sel, 0, 0, "PASS")

radio_button_should_not_be_selected(pg, sel, group_name) ==
    LET elements == get_radio_buttons(pg, group_name)
        actual_value == get_value_from_radio_buttons(pg, sel, elements)
    IN IF elements = <<>> THEN RbResult(sel, 0, 0, "ElementNotFound")
       ELSE IF ~actual_value.isNone
            THEN RbResult(sel, 0, 0, "AssertionError")
       ELSE RbResult(sel, 0, 0, "PASS")

RbRecord(kw, group_name, value, r) ==
    [kw |-> kw, group_name |-> group_name, value |-> value,
     before |-> radioSelected, element |-> r.element, clicks |-> r.clicks,
     outcome |-> r.outcome]

SelectRadioButton ==
    \E group_name \in GroupNames, value \in RadioTargets :
        LET r == select_radio_button(page, radioSelected, group_name, value)
        IN /\ radioSelected' = r.radioSelected
           /\ rbHist' = Keep2(rbHist, RbRecord("select_radio_button", group_name, value, r))
           /\ UNCHANGED <<page, cbVars, lsVars, fmVars>>

RadioButtonShouldBeSetTo ==
    \E group_name \in GroupNames, value \in RadioTargets :
        LET r == radio_button_should_be_set_to(page, radioSelected, group_name, value)
        IN /\ radioSelected' = r.radioSelected
           /\ rbHist' = Keep2(rbHist, RbRecord("radio_button_should_be_set_to", group_name, value, r))
           /\ UNCHANGED <<page, cbVars, lsVars, fmVars>>

RadioButtonShouldNotBeSelected ==
    \E group_name \in GroupNames :
        LET r == radio_button_should_not_be_selected(page, radioSelected, group_name)
        IN /\ radioSelected' = r.radioSelected
           /\ rbHist' = Keep2(rbHist, RbRecord("radio_button_should_not_be_selected", group_name, "", r))
           /\ UNCHANGED <<page, cbVars, lsVars, fmVars>>

\* A page of at most MaxButtons radio buttons, no keyword called yet; the
\* browser keeps at most one button of a group checked.  The checkboxes and
\* the select list are not touched.
RadioInit ==
    /\ page \in UNION {[1..n -> RadioButtons] : n \in 0..MaxButtons}
    /\ radioSelected \in SUBSET (1..Len(page))
    /\ \A i, j \in radioSelected : page[i].name = page[j].name => i = j
    /\ rbHist = <<>>
    /\ checked = [c \in Checkboxes |-> FALSE]
    /\ cbHist = <<>>
    /\ options = <<>>
    /\ is_multiple = FALSE
    /\ selected = {}
    /\ last = NoCall
    /\ got = NoReturn
    /\ deselect_raises = TRUE
    /\ matches = <<>>
    /\ files = {}
    /\ fmHist = <<>>

RadioNext ==
    \/ SelectRadioButton
    \/ RadioButtonShouldBeSetTo
    \/ RadioButtonShouldNotBeSelected

SpecRadio == RadioInit /\ [][RadioNext]_vars

(***************************************************************************)
(* Select lists                                                            *)
(***************************************************************************)
OptionStrs == {"", "a"}
Items == {"", "a", "b"}
Options == [value : OptionStrs, label : OptionStrs]
ListLocators == {"list", "nolist"}

\* _get_select_list: find_element(locator, tag='select') finds the list or
\* raises ElementNotFound.
get_select_list(locator) == locator = "list"

\* x in xs, for a Python list xs.
In(x, xs) == \E k \in 1..Len(xs) : xs[k] = x

\* any(xs) for a Python list of strings: some element is non-empty.
any(xs) == \E k \in 1..Len(xs) : xs[k] # ""

\* xs[:-1]
ButLast(xs) == SubSeq(xs, 1, Len(xs) - 1)

\* A driver call on the Select wrapper; index is -1 for a call by text.
Call(op, arg, index) == [op |-> op, arg |-> arg, index |-> index]

\* Select._setSelected as the select_by_* calls use it: an unselected option
\* is clicked; a click adds it to the selection of a multi-select list and
\* makes it the selection of a single-select list.
set_selected(multiple, sel, i) ==
    IF i \in sel THEN sel
    ELSE IF multiple THEN sel \cup {i}
    ELSE {i}

\* select.select_by_value(value): every option with that value attribute
\* (the first one only on a single-select list); no match raises.
select_by_value(opts, multiple, sel, value) ==
    LET hits == {i \in 1..Len(opts) : opts[i].value = value}
        first == CHOOSE i \in hits : \A j \in hits : i <= j
    IN IF hits = {} THEN [selected |-> sel, matched |-> FALSE]
       ELSE IF multiple THEN [selected |-> sel \cup hits, matched |-> TRUE]
       ELSE [selected |-> set_selected(multiple, sel, first), matched |-> TRUE]

\* select.select_by_visible_text(text): the same by the option's text.
select_by_visible_text(opts, multiple, sel, text) ==
    LET hits == {i \in 1..Len(opts) : opts[i].label = text}
        first == CHOOSE i \in hits : \A j \in hits : i <= j
    IN IF hits = {} THEN [selected |-> sel, matched |-> FALSE]
       ELSE IF multiple THEN [selected |-> sel \cup hits, matched |-> TRUE]
       ELSE [selected |-> set_selected(multiple, sel, first), matched |-> TRUE]

\* select.select_by_index(index), index counted from 0.
select_by_index(opts, multiple, sel, index) ==
    IF index + 1 \in 1..Len(opts)
    THEN [selected |-> set_selected(multiple, sel, index + 1), matched |-> TRUE]
    ELSE [selected |-> sel, matched |-> FALSE]

\* select.all_selected_options: the selected options in document order.
all_selected_options(opts, sel) ==
    LET F[k \in 0..Len(opts)] ==
            IF k = 0 THEN <<>>
            ELSE IF k \in sel THEN Append(F[k-1], k)
            ELSE F[k-1]
    IN F[Len(opts)]

\* _get_values_for_options, _get_labels_for_options
get_values_for_options(opts, os) == [k \in 1..Len(os) |-> opts[os[k]].value]
get_labels_for_options(opts, os) == [k \in 1..Len(os) |-> opts[os[k]].label]

LsResult(sel, calls, warns, error, out) ==
    [selected |-> sel, calls |-> calls, warns |-> warns, error |-> error,
     outcome |-> out]

\* for i in range(len(select.options)): select.select_by_index(i)
select_every_index(opts, multiple, sel) ==
    LET F[k \in 0..Len(opts)] ==
            IF k = 0 THEN [selected |-> sel, calls |-> <<>>]
            ELSE [selected |-> select_by_index(opts, multiple,
                                               F[k-1].selected, k - 1).selected,
                  calls |-> Append(F[k-1].calls, Call("select_by_index", "", k - 1))]
    IN F[Len(opts)]

select_every_index_descending(opts, multiple, sel) ==
    LET n == Len(opts)
        F[k \in 0..n] ==
            IF k = 0 THEN [selected |-> sel, calls |-> <<>>]
            ELSE [selected |-> select_by_index(opts, multiple,
                                               F[k-1].selected, n - k).selected,
                  calls |-> Append(F[k-1].calls, Call("select_by_index", "", n - k))]
    IN F[n]

select_all_from_list_descending(opts, multiple, sel, locator) ==
    IF ~get_select_list(locator)
    THEN LsResult(sel, <<>>, <<>>, <<>>, "ElementNotFound")
    ELSE IF ~multiple
    THEN LsResult(sel, <<>>, <<>>, <<>>, "RuntimeError")
    ELSE LET r == select_every_index_descending(opts, multiple, sel)
         IN LsResult(r.selected, r.calls, <<>>, <<>>, "PASS")

select_all_from_list(opts, multiple, sel, locator) ==
    IF ~get_select_list(locator)
    THEN LsResult(sel, <<>>, <<>>, <<>>, "ElementNotFound")
    ELSE IF ~multiple
    THEN LsResult(sel, <<>>, <<>>, <<>>, "RuntimeError")
    ELSE LET r == select_every_index(opts, multiple, sel)
         IN LsResult(r.selected, r.calls, <<>>, <<>>, "PASS")

\* The loop trying an item as a label before it tries it as a value.
RECURSIVE select_items_label_first(_, _, _, _)
select_items_label_first(opts, multiple, acc, items) ==
    IF items = <<>> THEN acc
    ELSE LET item == Head(items)
             byValue == select_by_value(opts, multiple, acc.selected, item)
             byLabel == select_by_visible_text(opts, multiple, acc.selected, item)
             valueCall == Call("select_by_value", item, -1)
             labelCall == Call("select_by_visible_text", item, -1)
             next ==
                 IF byLabel.matched
                 THEN [selected |-> byLabel.selected,
                       calls |-> Append(acc.calls, labelCall),
                       non_existing_items |-> acc.non_existing_items]
                 ELSE IF byValue.matched
                 THEN [selected |-> byValue.selected,
                       calls |-> acc.calls \o <<labelCall, valueCall>>,
                       non_existing_items |-> acc.non_existing_items]
                 ELSE [selected |-> acc.selected,
                       calls |-> acc.calls \o <<labelCall, valueCall>>,
                       non_existing_items |-> Append(acc.non_existing_items, item)]
         IN select_items_label_first(opts, multiple, next, Tail(items))

\* The loop of select_from_list over the items: select by value, on an
\* exception select by label, on an exception record the item.
RECURSIVE select_items(_, _, _, _)
select_items(opts, multiple, acc, items) ==
    IF items = <<>> THEN acc
    ELSE LET item == Head(items)
             byValue == select_by_value(opts, multiple, acc.selected, item)
             byLabel == select_by_visible_text(opts, multiple, acc.selected, item)
             valueCall == Call("select_by_value", item, -1)
             labelCall == Call("select_by_visible_text", item, -1)
             next ==
                 IF byValue.matched
                 THEN [selected |-> byValue.selected,
                       calls |-> Append(acc.calls, valueCall),
                       non_existing_items |-> acc.non_existing_items]
                 ELSE IF byLabel.matched
                 THEN [selected |-> byLabel.selected,
                       calls |-> acc.calls \o <<valueCall, labelCall>>,
                       non_existing_items |-> acc.non_existing_items]
                 ELSE [selected |-> acc.selected,
                       calls |-> acc.calls \o <<valueCall, labelCall>>,
                       non_existing_items |-> Append(acc.non_existing_items, item)]
         IN select_items(opts, multiple, next, Tail(items))

select_from_list_rollback(opts, multiple, sel, locator, items) ==
    IF ~get_select_list(locator)
    THEN LsResult(sel, <<>>, <<>>, <<>>, "ElementNotFound")
    ELSE IF items = <<>>
    THEN LET r == select_every_index(opts, multiple, sel)
         IN LsResult(r.selected, r.calls, <<>>, <<>>, "PASS")
    ELSE
    LET r == select_items(opts, multiple,
                          [selected |-> sel, calls |-> <<>>,
                           non_existing_items |-> <<>>], items)
        non_existing_items == r.non_existing_items
    IN IF ~any(non_existing_items)
       THEN LsResult(r.selected, r.calls, <<>>, <<>>, "PASS")
       ELSE IF multiple
       THEN LsResult(sel, r.calls, <<>>, non_existing_items, "ValueError")
       ELSE LET warns == IF any(ButLast(non_existing_items))
                         THEN <<ButLast(non_existing_items)>> ELSE <<>>
            IN IF In(items[Len(items)], non_existing_items)
               THEN LsResult(sel, r.calls, warns, <<items[Len(items)]>>, "ValueError")
               ELSE LsResult(r.selected, r.calls, warns, <<>>, "PASS")

\* select_from_list refusing to select all options of a single-select list.
select_from_list_multiple_only(opts, multiple, sel, locator, items) ==
    IF ~get_select_list(locator)
    THEN LsResult(sel, <<>>, <<>>, <<>>, "ElementNotFound")
    ELSE IF items = <<>> /\ ~multiple
    THEN LsResult(sel, <<>>, <<>>, <<>>, "RuntimeError")
    ELSE IF items = <<>>
    THEN LET r == select_every_index(opts, multiple, sel)
         IN LsResult(r.selected, r.calls, <<>>, <<>>, "PASS")
    ELSE
    LET r == select_items(opts, multiple,
                          [selected |-> sel, calls |-> <<>>,
                           non_existing_items |-> <<>>], items)
        non_existing_items == r.non_existing_items
    IN IF ~any(non_existing_items)
       THEN LsResult(r.selected, r.calls, <<>>, <<>>, "PASS")
       ELSE IF multiple
       THEN LsResult(r.selected, r.calls, <<>>, non_existing_items, "ValueError")
       ELSE LET warns == IF any(ButLast(non_existing_items))
                         THEN <<ButLast(non_existing_items)>> ELSE <<>>
            IN IF In(items[Len(items)], non_existing_items)
               THEN LsResult(r.selected, r.calls, warns, <<items[Len(items)]>>, "ValueError")
               ELSE LsResult(r.selected, r.calls, warns, <<>>, "PASS")

\* select_from_list(locator, *items)
select_from_list(opts, multiple, sel, locator, items) ==
    IF ~get_select_list(locator)
    THEN LsResult(sel, <<>>, <<>>, <<>>, "ElementNotFound")
    ELSE IF items = <<>>
    THEN LET r == select_every_index(opts, multiple, sel)
         IN LsResult(r.selected, r.calls, <<>>, <<>>, "PASS")
    ELSE
    LET r == select_items(opts, multiple,
                          [selected |-> sel, calls |-> <<>>,
                           non_existing_items |-> <<>>], items)
        non_existing_items == r.non_existing_items
    IN IF ~any(non_existing_items)
       THEN LsResult(r.selected, r.calls, <<>>, <<>>, "PASS")
       ELSE IF multiple
       THEN LsResult(r.selected, r.calls, <<>>, non_existing_items, "ValueError")
       ELSE LET warns == IF any(ButLast(non_existing_items))
                         THEN <<ButLast(non_existing_items)>> ELSE <<>>
            IN IF In(items[Len(items)], non_existing_items)
               THEN LsResult(r.selected, r.calls, warns, <<items[Len(items)]>>, "ValueError")
               ELSE LsResult(r.selected, r.calls, warns, <<>>, "PASS")

\* page_should_contain_list: assert_page_contains(locator, 'list', ...).
page_should_contain_list(locator) == locator = "list"

list_selection_should_be_no_items_pass(opts, sel, locator, items) ==
    LET os == all_selected_options(opts, sel)
        selected_values == get_values_for_options(opts, os)
        selected_labels == get_labels_for_options(opts, os)
    IN IF ~page_should_contain_list(locator)
       THEN LsResult(sel, <<>>, <<>>, <<>>, "AssertionError")
       ELSE IF items = <<>>
       THEN LsResult(sel, <<>>, <<>>, <<>>, "PASS")
       ELSE IF \E k \in 1..Len(items) :
                  ~In(items[k], selected_values \o selected_labels)
       THEN LsResult(sel, <<>>, <<>>, <<>>, "AssertionError")
       ELSE IF \E k \in 1..Len(os) :
                  ~In(selected_values[k], items) /\ ~In(selected_labels[k], items)
       THEN LsResult(sel, <<>>, <<>>, <<>>, "AssertionError")
       ELSE LsResult(sel, <<>>, <<>>, <<>>, "PASS")

list_selection_should_be_items_only(opts, sel, locator, items) ==
    LET os == all_selected_options(opts, sel)
        selected_values == get_values_for_options(opts, os)
        selected_labels == get_labels_for_options(opts, os)
    IN IF ~page_should_contain_list(locator)
       THEN LsResult(sel, <<>>, <<>>, <<>>, "AssertionError")
       ELSE IF items = <<>> /\ Len(os) = 0
       THEN LsResult(sel, <<>>, <<>>, <<>>, "PASS")
       ELSE IF items = <<>>
       THEN LsResult(sel, <<>>, <<>>, <<>>, "AssertionError")
       ELSE IF \E k \in 1..Len(items) :
                  ~In(items[k], selected_values \o selected_labels)
       THEN LsResult(sel, <<>>, <<>>, <<>>, "AssertionError")
       ELSE LsResult(sel, <<>>, <<>>, <<>>, "PASS")

list_selection_should_be(opts, sel, locator, items) ==
    LET os == all_selected_options(opts, sel)
        selected_values == get_values_for_options(opts, os)
        selected_labels == get_labels_for_options(opts, os)
    IN IF ~page_should_contain_list(locator)
       THEN LsResult(sel, <<>>, <<>>, <<>>, "AssertionError")
       ELSE IF items = <<>> /\ Len(os) = 0
       THEN LsResult(sel, <<>>, <<>>, <<>>, "PASS")
       ELSE IF \E k \in 1..Len(items) :
                  ~In(items[k], selected_values \o selected_labels)
       THEN LsResult(sel, <<>>, <<>>, <<>>, "AssertionError")
       ELSE IF \E k \in 1..Len(os) :
                  ~In(selected_values[k], items) /\ ~In(selected_labels[k], items)
       THEN LsResult(sel, <<>>, <<>>, <<>>, "AssertionError")
       ELSE LsResult(sel, <<>>, <<>>, <<>>, "PASS")

\* The *items a keyword can be given.
ItemSeqs == UNION {[1..n -> Items] : n \in 0..MaxItems}

LsRecord(kw, locator, items, r) ==
    [kw |-> kw, locator |-> locator, items |-> items, before |-> selected,
     outcome |-> r.outcome, calls |-> r.calls, warns |-> r.warns,
     error |-> r.error]

ListSelectionShouldBe ==
    \E locator \in ListLocators, items \in ItemSeqs :
        LET r == list_selection_should_be(options, selected, locator, items)
        IN /\ selected' = r.selected
           /\ last' = LsRecord("list_selection_should_be", locator, items, r)
           /\ UNCHANGED <<options, is_multiple, got, deselect_raises, cbVars, rbVars, fmVars>>

SelectAllFromList ==
    \E locator \in ListLocators :
        LET r == select_all_from_list(options, is_multiple, selected, locator)
        IN /\ selected' = r.selected
           /\ last' = LsRecord("select_all_from_list", locator, <<>>, r)
           /\ UNCHANGED <<options, is_multiple, got, deselect_raises, cbVars, rbVars, fmVars>>

SelectFromList ==
    \E locator \in ListLocators, items \in ItemSeqs :
        LET r == select_from_list(options, is_multiple, selected, locator, items)
        IN /\ selected' = r.selected
           /\ last' = LsRecord("select_from_list", locator, items, r)
           /\ UNCHANGED <<options, is_multiple, got, deselect_raises, cbVars, rbVars, fmVars>>

\* A select list of at most MaxOptions options, single- or multi-select,
\* with any selection it admits; no keyword called yet.  The checkboxes and
\* the radio buttons are not touched.
Init ==
    /\ options \in UNION {[1..n -> Options] : n \in 0..MaxOptions}
    /\ is_multiple \in BOOLEAN
    /\ selected \in SUBSET (1..Len(options))
    /\ is_multiple \/ Cardinality(selected) <= 1
    /\ last = NoCall
    /\ checked = [c \in Checkboxes |-> FALSE]
    /\ cbHist = <<>>
    /\ page = <<>>
    /\ radioSelected = {}
    /\ rbHist = <<>>
    /\ got = NoReturn
    /\ deselect_raises = TRUE
    /\ matches = <<>>
    /\ files = {}
    /\ fmHist = <<>>

Next ==
    \/ ListSelectionShouldBe
    \/ SelectAllFromList
    \/ SelectFromList

Spec == Init /\ [][Next]_vars


(***************************************************************************)
(* Unselecting from a multi-select list                                    *)
(***************************************************************************)
\* select.deselect_all(): no option stays selected.
deselect_all(sel) == {}

\* select.deselect_by_value(value): every option with that value attribute
\* is unselected; with no match the driver raises NoSuchElementException
\* (Selenium 2.52 and newer) or does nothing (older).
deselect_by_value(opts, sel, raises, value) ==
    LET hits == {i \in 1..Len(opts) : opts[i].value = value}
    IN [selected |-> sel \ hits, raised |-> hits = {} /\ raises]

\* select.deselect_by_visible_text(text): the same by the option's text.
deselect_by_visible_text(opts, sel, raises, text) ==
    LET hits == {i \in 1..Len(opts) : opts[i].label = text}
    IN [selected |-> sel \ hits, raised |-> hits = {} /\ raises]

\* The loop of unselect_from_list over the items: deselect by value, then
\* deselect by label, a NoSuchElementException of either being passed over.
RECURSIVE unselect_items(_, _, _, _)
unselect_items(opts, raises, acc, items) ==
    IF items = <<>> THEN acc
    ELSE LET item == Head(items)
             byValue == deselect_by_value(opts, acc.selected, raises, item)
             byLabel == deselect_by_visible_text(opts, byValue.selected, raises, item)
             next == [selected |-> byLabel.selected,
                      calls |-> acc.calls \o
                                <<Call("deselect_by_value", item, -1),
                                  Call("deselect_by_visible_text", item, -1)>>]
         IN unselect_items(opts, raises, next, Tail(items))

\* The same loop trying the label only when the value did not match.
RECURSIVE unselect_items_value_else_label(_, _, _, _)
unselect_items_value_else_label(opts, raises, acc, items) ==
    IF items = <<>> THEN acc
    ELSE LET item == Head(items)
             hits == {i \in 1..Len(opts) : opts[i].value = item}
             byValue == deselect_by_value(opts, acc.selected, raises, item)
             byLabel == deselect_by_visible_text(opts, byValue.selected, raises, item)
             next == IF hits # {}
                     THEN [selected |-> byValue.selected,
                           calls |-> Append(acc.calls,
                                            Call("deselect_by_value", item, -1))]
                     ELSE [selected |-> byLabel.selected,
                           calls |-> acc.calls \o
                                     <<Call("deselect_by_value", item, -1),
                                       Call("deselect_by_visible_text", item, -1)>>]
         IN unselect_items_value_else_label(opts, raises, next, Tail(items))

unselect_from_list_value_else_label(opts, multiple, sel, raises, locator, items) ==
    IF ~get_select_list(locator)
    THEN LsResult(sel, <<>>, <<>>, <<>>, "ElementNotFound")
    ELSE IF ~multiple
    THEN LsResult(sel, <<>>, <<>>, <<>>, "RuntimeError")
    ELSE IF items = <<>>
    THEN LsResult(deselect_all(sel), <<Call("deselect_all", "", -1)>>,
                  <<>>, <<>>, "PASS")
    ELSE LET r == unselect_items_value_else_label(
                      opts, raises, [selected |-> sel, calls |-> <<>>], items)
         IN LsResult(r.selected, r.calls, <<>>, <<>>, "PASS")

unselect_from_list_no_items_ignored(opts, multiple, sel, raises, locator, items) ==
    IF ~get_select_list(locator)
    THEN LsResult(sel, <<>>, <<>>, <<>>, "ElementNotFound")
    ELSE IF ~multiple
    THEN LsResult(sel, <<>>, <<>>, <<>>, "RuntimeError")
    ELSE LET r == unselect_items(opts, raises,
                                 [selected |-> sel, calls |-> <<>>], items)
         IN LsResult(r.selected, r.calls, <<>>, <<>>, "PASS")

unselect_from_list(opts, multiple, sel, raises, locator, items) ==
    IF ~get_select_list(locator)
    THEN LsResult(sel, <<>>, <<>>, <<>>, "ElementNotFound")
    ELSE IF ~multiple
    THEN LsResult(sel, <<>>, <<>>, <<>>, "RuntimeError")
    ELSE IF items = <<>>
    THEN LsResult(deselect_all(sel), <<Call("deselect_all", "", -1)>>,
                  <<>>, <<>>, "PASS")
    ELSE LET r == unselect_items(opts, raises,
                                 [selected |-> sel, calls |-> <<>>], items)
         IN LsResult(r.selected, r.calls, <<>>, <<>>, "PASS")

UnselectFromList ==
    \E locator \in ListLocators, items \in ItemSeqs :
        LET r == unselect_from_list(options, is_multiple, selected,
                                    deselect_raises, locator, items)
        IN /\ selected' = r.selected
           /\ last' = LsRecord("unselect_from_list", locator, items, r)
           /\ UNCHANGED <<options, is_multiple, got, deselect_raises, cbVars, rbVars, fmVars>>

\* A select list as in Init, with a driver of either kind.
UnselectInit ==
    /\ options \in UNION {[1..n -> Options] : n \in 0..MaxOptions}
    /\ is_multiple \in BOOLEAN
    /\ selected \in SUBSET (1..Len(options))
    /\ is_multiple \/ Cardinality(selected) <= 1
    /\ last = NoCall
    /\ got = NoReturn
    /\ deselect_raises \in BOOLEAN
    /\ checked = [c \in Checkboxes |-> FALSE]
    /\ cbHist = <<>>
    /\ page = <<>>
    /\ radioSelected = {}
    /\ rbHist = <<>>
    /\ matches = <<>>
    /\ files = {}
    /\ fmHist = <<>>

UnselectNext ==
    \/ UnselectFromList
    \/ SelectAllFromList

SpecUnselect == UnselectInit /\ [][UnselectNext]_vars


(***************************************************************************)
(* Selecting and unselecting by index, value or label; reading the         *)
(* selected values                                                         *)
(***************************************************************************)
IndexStrs == {"0", "1", "7"}

\* int(index) of an index given as a string.
int(index) ==
    CASE index = "0" -> 0
      [] index = "1" -> 1
      [] index = "7" -> 7

\* select.deselect_by_index(index), index counted from 0.
deselect_by_index(opts, sel, raises, index) ==
    IF index + 1 \in 1..Len(opts)
    THEN [selected |-> sel \ {index + 1}, raised |-> FALSE]
    ELSE [selected |-> sel, raised |-> raises]

\* One call of the loops below on the Select wrapper, by the name of the
\* driver method: the selection it leaves and whether it raised.
driver_call(opts, multiple, raises, op, sel, entry) ==
    LET picked(r) == [selected |-> r.selected, raised |-> ~r.matched]
    IN CASE op = "select_by_index" ->
                picked(select_by_index(opts, multiple, sel, int(entry)))
         [] op = "select_by_value" ->
                picked(select_by_value(opts, multiple, sel, entry))
         [] op = "select_by_visible_text" ->
                picked(select_by_visible_text(opts, multiple, sel, entry))
         [] op = "deselect_by_index" ->
                deselect_by_index(opts, sel, raises, int(entry))
         [] op = "deselect_by_value" ->
                deselect_by_value(opts, sel, raises, entry)
         [] op = "deselect_by_visible_text" ->
                deselect_by_visible_text(opts, sel, raises, entry)

\* The record of that call.
driver_record(op, entry) ==
    IF op \in {"select_by_index", "deselect_by_index"}
    THEN Call(op, "", int(entry))
    ELSE Call(op, entry, -1)

\* `for entry in entries: select.<op>(entry)`: the calls are issued in
\* order until one raises.
for_each(opts, multiple, raises, op, sel, entries) ==
    LET F[k \in 0..Len(entries)] ==
            IF k = 0 THEN [selected |-> sel, calls |-> <<>>, raised |-> FALSE]
            ELSE IF F[k-1].raised THEN F[k-1]
            ELSE LET r == driver_call(opts, multiple, raises, op,
                                      F[k-1].selected, entries[k])
                 IN [selected |-> r.selected,
                     calls |-> Append(F[k-1].calls,
                                      driver_record(op, entries[k])),
                     raised |-> r.raised]
    IN F[Len(entries)]

\* The result of a keyword that ran such a loop.
LoopResult(r) ==
    LsResult(r.selected, r.calls, <<>>, <<>>,
             IF r.raised THEN "NoSuchElementException" ELSE "PASS")

select_from_list_by_index(opts, multiple, sel, locator, indexes) ==
    IF indexes = <<>> THEN LsResult(sel, <<>>, <<>>, <<>>, "ValueError")
    ELSE IF ~get_select_list(locator)
    THEN LsResult(sel, <<>>, <<>>, <<>>, "ElementNotFound")
    ELSE LoopResult(for_each(opts, multiple, FALSE, "select_by_index", sel, indexes))

select_from_list_by_value(opts, multiple, sel, locator, values) ==
    IF values = <<>> THEN LsResult(sel, <<>>, <<>>, <<>>, "ValueError")
    ELSE IF ~get_select_list(locator)
    THEN LsResult(sel, <<>>, <<>>, <<>>, "ElementNotFound")
    ELSE LoopResult(for_each(opts, multiple, FALSE, "select_by_value", sel, values))

select_from_list_by_label(opts, multiple, sel, locator, labels) ==
    IF labels = <<>> THEN LsResult(sel, <<>>, <<>>, <<>>, "ValueError")
    ELSE IF ~get_select_list(locator)
    THEN LsResult(sel, <<>>, <<>>, <<>>, "ElementNotFound")
    ELSE LoopResult(for_each(opts, multiple, FALSE, "select_by_visible_text", sel, labels))

unselect_from_list_by_index(opts, multiple, sel, raises, locator, indexes) ==
    IF indexes = <<>> THEN LsResult(sel, <<>>, <<>>, <<>>, "ValueError")
    ELSE IF ~get_select_list(locator)
    THEN LsResult(sel, <<>>, <<>>, <<>>, "ElementNotFound")
    ELSE IF ~multiple
    THEN LsResult(sel, <<>>, <<>>, <<>>, "RuntimeError")
    ELSE LoopResult(for_each(opts, multiple, raises, "deselect_by_index", sel, indexes))

unselect_from_list_by_value_locator_first(opts, multiple, sel, raises, locator, values) ==
    IF ~get_select_list(locator)
    THEN LsResult(sel, <<>>, <<>>, <<>>, "ElementNotFound")
    ELSE IF ~multiple
    THEN LsResult(sel, <<>>, <<>>, <<>>, "RuntimeError")
    ELSE IF values = <<>> THEN LsResult(sel, <<>>, <<>>, <<>>, "ValueError")
    ELSE LoopResult(for_each(opts, multiple, raises, "deselect_by_value", sel, values))

unselect_from_list_by_value(opts, multiple, sel, raises, locator, values) ==
    IF values = <<>> THEN LsResult(sel, <<>>, <<>>, <<>>, "ValueError")
    ELSE IF ~get_select_list(locator)
    THEN LsResult(sel, <<>>, <<>>, <<>>, "ElementNotFound")
    ELSE IF ~multiple
    THEN LsResult(sel, <<>>, <<>>, <<>>, "RuntimeError")
    ELSE LoopResult(for_each(opts, multiple, raises, "deselect_by_value", sel, values))

unselect_from_list_by_label(opts, multiple, sel, raises, locator, labels) ==
    IF labels = <<>> THEN LsResult(sel, <<>>, <<>>, <<>>, "ValueError")
    ELSE IF ~get_select_list(locator)
    THEN LsResult(sel, <<>>, <<>>, <<>>, "ElementNotFound")
    ELSE IF ~multiple
    THEN LsResult(sel, <<>>, <<>>, <<>>, "RuntimeError")
    ELSE LoopResult(for_each(opts, multiple, raises, "deselect_by_visible_text", sel, labels))

GetResult(locator, out, returned) ==
    [called |-> TRUE, locator |-> locator, outcome |-> out, returned |-> returned]

get_selected_list_values_labels(opts, sel, locator) ==
    LET os == all_selected_options(opts, sel)
    IN IF ~get_select_list(locator) THEN GetResult(locator, "ElementNotFound", <<>>)
       ELSE IF os = <<>> THEN GetResult(locator, "ValueError", <<>>)
       ELSE GetResult(locator, "PASS", get_labels_for_options(opts, os))

get_selected_list_values(opts, sel, locator) ==
    LET os == all_selected_options(opts, sel)
    IN IF ~get_select_list(locator) THEN GetResult(locator, "ElementNotFound", <<>>)
       ELSE IF os = <<>> THEN GetResult(locator, "ValueError", <<>>)
       ELSE GetResult(locator, "PASS", get_values_for_options(opts, os))

\* The *indexes a keyword can be given.
IndexSeqs == UNION {[1..n -> IndexStrs] : n \in 0..MaxItems}

\* The keywords below are called once, on a page that is any page a run of
\* keywords can lead to: keywords change nothing but the selection, and
\* every selection a list admits is an initial one.
SelectFromListByIndex ==
    /\ last = NoCall
    /\ \E locator \in ListLocators, indexes \in IndexSeqs :
        LET r == select_from_list_by_index(options, is_multiple, selected,
                                           locator, indexes)
        IN /\ selected' = r.selected
           /\ last' = LsRecord("select_from_list_by_index", locator, indexes, r)
           /\ got' = NoReturn
           /\ UNCHANGED <<options, is_multiple, deselect_raises, cbVars, rbVars, fmVars>>

SelectFromListByValue ==
    /\ last = NoCall
    /\ \E locator \in ListLocators, values \in ItemSeqs :
        LET r == select_from_list_by_value(options, is_multiple, selected,
                                           locator, values)
        IN /\ selected' = r.selected
           /\ last' = LsRecord("select_from_list_by_value", locator, values, r)
           /\ got' = NoReturn
           /\ UNCHANGED <<options, is_multiple, deselect_raises, cbVars, rbVars, fmVars>>

SelectFromListByLabel ==
    /\ last = NoCall
    /\ \E locator \in ListLocators, labels \in ItemSeqs :
        LET r == select_from_list_by_label(options, is_multiple, selected,
                                           locator, labels)
        IN /\ selected' = r.selected
           /\ last' = LsRecord("select_from_list_by_label", locator, labels, r)
           /\ got' = NoReturn
           /\ UNCHANGED <<options, is_multiple, deselect_raises, cbVars, rbVars, fmVars>>

UnselectFromListByIndex ==
    /\ last = NoCall
    /\ \E locator \in ListLocators, indexes \in IndexSeqs :
        LET r == unselect_from_list_by_index(options, is_multiple, selected,
                                             deselect_raises, locator, indexes)
        IN /\ selected' = r.selected
           /\ last' = LsRecord("unselect_from_list_by_index", locator, indexes, r)
           /\ got' = NoReturn
           /\ UNCHANGED <<options, is_multiple, deselect_raises, cbVars, rbVars, fmVars>>

UnselectFromListByValue ==
    /\ last = NoCall
    /\ \E locator \in ListLocators, values \in ItemSeqs :
        LET r == unselect_from_list_by_value(options, is_multiple, selected,
                                             deselect_raises, locator, values)
        IN /\ selected' = r.selected
           /\ last' = LsRecord("unselect_from_list_by_value", locator, values, r)
           /\ got' = NoReturn
           /\ UNCHANGED <<options, is_multiple, deselect_raises, cbVars, rbVars, fmVars>>

UnselectFromListByLabel ==
    /\ last = NoCall
    /\ \E locator \in ListLocators, labels \in ItemSeqs :
        LET r == unselect_from_list_by_label(options, is_multiple, selected,
                                             deselect_raises, locator, labels)
        IN /\ selected' = r.selected
           /\ last' = LsRecord("unselect_from_list_by_label", locator, labels, r)
           /\ got' = NoReturn
           /\ UNCHANGED <<options, is_multiple, deselect_raises, cbVars, rbVars, fmVars>>

GetSelectedListValues ==
    \E locator \in ListLocators :
        /\ got' = get_selected_list_values(options, selected, locator)
        /\ UNCHANGED <<options, is_multiple, selected, last, deselect_raises,
                       cbVars, rbVars, fmVars>>

ByEntryNext ==
    \/ SelectFromListByIndex
    \/ SelectFromListByValue
    \/ SelectFromListByLabel
    \/ UnselectFromListByIndex
    \/ UnselectFromListByValue
    \/ UnselectFromListByLabel

SpecByEntry == UnselectInit /\ [][ByEntryNext]_vars

GetValuesNext ==
    \/ SelectFromListByValue
    \/ GetSelectedListValues

SpecGetValues == Init /\ [][GetValuesNext]_vars

(***************************************************************************)
(* Buttons and file inputs: click_button, choose_file                      *)
(***************************************************************************)
\* At most MaxMatches elements of the page match one locator.
MaxMatches == 2

FormTags == {"input", "button"}
FormLocators == {"go", "send"}
FilePaths == {"/a.txt", "/b.txt"}

\* find_element called without a tag.
NoTag == ""

\* The tags of the elements matching one locator, in document order.
MatchSeqs == UNION {[1..n -> FormTags] : n \in 0..MaxMatches}

\* os.path.isfile(file_path)
isfile(fs, file_path) == file_path \in fs

\* self.find_element(locator, tag=tag): the first element matching the
\* locator and carrying the tag (any tag when none is given), as its
\* position among the matches of the locator; 0 when there is none.
find_element(m, locator, tag) ==
    LET hits == {i \in DOMAIN m[locator] : tag = NoTag \/ m[locator][i] = tag}
    IN IF hits = {} THEN 0
       ELSE CHOOSE i \in hits : \A j \in hits : i <= j

\* One call reaching the driver.
DriverCall(op, locator, tag, element, arg) ==
    [op |-> op, locator |-> locator, tag |-> tag, element |-> element,
     arg |-> arg]

\* The driver calls a keyword issued and how it ended.
FmResult(calls, outcome) == [calls |-> calls, outcome |-> outcome]

\* click_button looking for the button-tagged element first.
click_button_button_first(m, locator) ==
    LET button == find_element(m, locator, "button")
        first == <<DriverCall("find_element", locator, "button", 0, "")>>
    IN IF button # 0
       THEN FmResult(Append(first,
                DriverCall("click", locator, "button", button, "")), "PASS")
       ELSE LET input == find_element(m, locator, "input")
                second == Append(first,
                    DriverCall("find_element", locator, "input", 0, ""))
            IN IF input = 0
               THEN FmResult(second, "ElementNotFound")
               ELSE FmResult(Append(second,
                        DriverCall("click", locator, "input", input, "")),
                        "PASS")

\* click_button(locator)
click_button(m, locator) ==
    LET input == find_element(m, locator, "input")
        first == <<DriverCall("find_element", locator, "input", 0, "")>>
    IN IF input # 0
       THEN FmResult(Append(first,
                DriverCall("click", locator, "input", input, "")), "PASS")
       ELSE LET button == find_element(m, locator, "button")
                second == Append(first,
                    DriverCall("find_element", locator, "button", 0, ""))
            IN IF button = 0
               THEN FmResult(second, "ElementNotFound")
               ELSE FmResult(Append(second,
                        DriverCall("click", locator, "button", button, "")),
                        "PASS")

\* choose_file resolving the locator before it looks at the path.
choose_file_locator_first(m, fs, locator, file_path) ==
    LET element == find_element(m, locator, NoTag)
        found == <<DriverCall("find_element", locator, NoTag, 0, "")>>
    IN IF element = 0
       THEN FmResult(found, "ElementNotFound")
       ELSE IF ~isfile(fs, file_path)
            THEN FmResult(found, "ValueError")
            ELSE FmResult(Append(found,
                     DriverCall("send_keys", locator, m[locator][element],
                                element, file_path)), "PASS")

\* choose_file(locator, file_path)
choose_file(m, fs, locator, file_path) ==
    IF ~isfile(fs, file_path)
    THEN FmResult(<<>>, "ValueError")
    ELSE LET element == find_element(m, locator, NoTag)
             found == <<DriverCall("find_element", locator, NoTag, 0, "")>>
         IN IF element = 0
            THEN FmResult(found, "ElementNotFound")
            ELSE FmResult(Append(found,
                     DriverCall("send_keys", locator, m[locator][element],
                                element, file_path)), "PASS")

\* The record of one click_button / choose_file call.
FmRecord(kw, locator, file_path, r) ==
    [kw |-> kw, locator |-> locator, file_path |-> file_path,
     calls |-> r.calls, outcome |-> r.outcome]

ClickButton ==
    \E locator \in FormLocators :
        /\ fmHist' = Keep2(fmHist, FmRecord("click_button", locator, "",
                               click_button(matches, locator)))
        /\ UNCHANGED <<matches, files, cbVars, rbVars, lsVars>>

ChooseFile ==
    \E locator \in FormLocators, file_path \in FilePaths :
        /\ fmHist' = Keep2(fmHist, FmRecord("choose_file", locator, file_path,
                               choose_file(matches, files, locator, file_path)))
        /\ UNCHANGED <<matches, files, cbVars, rbVars, lsVars>>

\* Any elements behind the two locators, any of the paths being files, no
\* keyword called yet.
FormInit ==
    /\ checked = [c \in Checkboxes |-> FALSE]
    /\ cbHist = <<>>
    /\ page = <<>>
    /\ radioSelected = {}
    /\ rbHist = <<>>
    /\ options = <<>>
    /\ is_multiple = FALSE
    /\ selected = {}
    /\ last = NoCall
    /\ got = NoReturn
    /\ deselect_raises = TRUE
    /\ matches \in [FormLocators -> MatchSeqs]
    /\ files \in SUBSET FilePaths
    /\ fmHist = <<>>

FormNext ==
    \/ ClickButton
    \/ ChooseFile

SpecForm == FormInit /\ [][FormNext]_vars


\* C1: two consecutive select_checkbox calls on a checkbox click it once in
\* total when it started unselected (the first call clicks) and never when
\* it started selected; unselect_checkbox clicks exactly when the checkbox
\* is selected at the call.
C1_SelectCheckboxIdempotent ==
    /\ ( /\ Len(cbHist) = 2
         /\ cbHist[1].kw = "select_checkbox"
         /\ cbHist[2].kw = "select_checkbox"
         /\ cbHist[1].locator = cbHist[2].locator
         /\ cbHist[1].locator \in Checkboxes )
       => LET expected == IF cbHist[1].before[cbHist[1].locator] THEN 0 ELSE 1
          IN /\ cbHist[1].clicks + cbHist[2].clicks = expected
             /\ cbHist[1].clicks = expected
    /\ \A k \in 1..Len(cbHist) :
         (cbHist[k].kw = "unselect_checkbox" /\ cbHist[k].locator \in Checkboxes)
         => cbHist[k].clicks = IF cbHist[k].before[cbHist[k].locator] THEN 1 ELSE 0

C1_Witness ==
    /\ Len(cbHist) = 2
    /\ cbHist[1].kw = "select_checkbox"
    /\ cbHist[2].kw = "select_checkbox"
    /\ cbHist[1].locator = "cb1"
    /\ cbHist[2].locator = "cb1"
    /\ ~cbHist[1].before["cb1"]
    /\ cbHist[1].clicks = 1
    /\ cbHist[2].clicks = 0

\* C2: select_checkbox on a checkbox immediately followed by
\* checkbox_should_be_selected on it raises no AssertionError, whatever the
\* state of the checkbox was before.
C2_SelectThenShouldBeSelected ==
    ( /\ Len(cbHist) = 2
      /\ cbHist[1].kw = "select_checkbox"
      /\ cbHist[2].kw = "checkbox_should_be_selected"
      /\ cbHist[1].locator = cbHist[2].locator
      /\ cbHist[1].locator \in Checkboxes )
    => cbHist[2].outcome = "PASS"

C2_Witness ==
    /\ Len(cbHist) = 2
    /\ cbHist[1].kw = "select_checkbox"
    /\ cbHist[2].kw = "checkbox_should_be_selected"
    /\ cbHist[1].locator = "cb2"
    /\ cbHist[2].locator = "cb2"
    /\ ~cbHist[1].before["cb2"]
    /\ cbHist[1].clicks = 1
    /\ cbHist[2].outcome = "PASS"

\* The buttons of a group that report selected in a page state.
SelectedOfGroup(sel, group_name) ==
    {i \in sel : page[i].name = group_name}

\* select_radio_button(g, t) passed and the same arguments were then given
\* to radio_button_should_be_set_to.
SelectThenShouldBeSetTo ==
    /\ Len(rbHist) = 2
    /\ rbHist[1].kw = "select_radio_button"
    /\ rbHist[1].outcome = "PASS"
    /\ rbHist[2].kw = "radio_button_should_be_set_to"
    /\ rbHist[2].group_name = rbHist[1].group_name
    /\ rbHist[2].value = rbHist[1].value

\* C3 as stated: whenever select_radio_button(group, target) resolves to a
\* button (by value or by id), the following
\* radio_button_should_be_set_to(group, target) succeeds.
C3_AsStated ==
    SelectThenShouldBeSetTo => rbHist[2].outcome = "PASS"

\* C3 amended: when the button select_radio_button(group, target) resolves to
\* has target as its value attribute, the following
\* radio_button_should_be_set_to(group, target) succeeds.
C3_SelectThenSetToByValue ==
    ( /\ SelectThenShouldBeSetTo
      /\ page[rbHist[1].element].value = rbHist[1].value )
    => rbHist[2].outcome = "PASS"

C3_Witness ==
    /\ SelectThenShouldBeSetTo
    /\ page[rbHist[1].element].value = rbHist[1].value
    /\ rbHist[1].clicks = 1
    /\ rbHist[1].before # {}
    /\ rbHist[2].outcome = "PASS"

\* C4: radio_button_should_not_be_selected(group) raises AssertionError
\* exactly when a button of the group reports selected, an empty-string value
\* included; so it raises right after a select_radio_button on the group that
\* passed.
C4_ShouldNotBeSelected ==
    /\ \A k \in 1..Len(rbHist) :
         rbHist[k].kw = "radio_button_should_not_be_selected"
         => ( rbHist[k].outcome = "AssertionError"
              <=> SelectedOfGroup(rbHist[k].before, rbHist[k].group_name) # {} )
    /\ ( /\ Len(rbHist) = 2
         /\ rbHist[1].kw = "select_radio_button"
         /\ rbHist[1].outcome = "PASS"
         /\ rbHist[2].kw = "radio_button_should_not_be_selected"
         /\ rbHist[2].group_name = rbHist[1].group_name )
       => rbHist[2].outcome = "AssertionError"

C4_Witness ==
    /\ Len(rbHist) = 2
    /\ rbHist[1].kw = "select_radio_button"
    /\ rbHist[1].outcome = "PASS"
    /\ rbHist[1].clicks = 1
    /\ page[rbHist[1].element].value = ""
    /\ rbHist[2].kw = "radio_button_should_not_be_selected"
    /\ rbHist[2].group_name = rbHist[1].group_name
    /\ rbHist[2].outcome = "AssertionError"

\* The last call was keyword kw on the select list of the page.
LastOnList(kw) == last.kw = kw /\ last.locator = "list"

\* The set of the given items.
ItemSet(items) == {items[k] : k \in 1..Len(items)}

\* No option of the list has the item as its value or as its label.
Unmatched(item) ==
    \A i \in 1..Len(options) :
        options[i].value # item /\ options[i].label # item

\* The unmatched items of a call, in the given order.
UnmatchedItems(items) ==
    LET F[k \in 0..Len(items)] ==
            IF k = 0 THEN <<>>
            ELSE IF Unmatched(items[k]) THEN Append(F[k-1], items[k])
            ELSE F[k-1]
    IN F[Len(items)]

\* The option a matched item stands for on a single-select list: the first
\* option with that value, else the first option with that label.
OptionOf(item) ==
    LET byValue == {i \in 1..Len(options) : options[i].value = item}
        byLabel == {i \in 1..Len(options) : options[i].label = item}
        hits == IF byValue # {} THEN byValue ELSE byLabel
    IN CHOOSE i \in hits : \A j \in hits : i <= j

\* C5: list_selection_should_be with no items succeeds exactly when the
\* list has no selected option, and raises AssertionError otherwise.
C5_NoItemsIffNoSelection ==
    (LastOnList("list_selection_should_be") /\ last.items = <<>>)
    => /\ last.outcome = "PASS" <=> last.before = {}
       /\ last.before # {} => last.outcome = "AssertionError"

C5_Witness ==
    /\ LastOnList("list_selection_should_be")
    /\ last.items = <<>>
    /\ last.before # {}
    /\ last.outcome = "AssertionError"

\* C6: list_selection_should_be with items succeeds exactly when every item
\* is the value or the label of a selected option and every selected option
\* has its value or its label among the items, in whatever order the items
\* are given and the options are selected.
C6_SelectionEquality ==
    (LastOnList("list_selection_should_be") /\ last.items # <<>>)
    => ( last.outcome = "PASS"
         <=> /\ \A item \in ItemSet(last.items) :
                   \E i \in last.before :
                       options[i].value = item \/ options[i].label = item
             /\ \A i \in last.before :
                   \/ options[i].value \in ItemSet(last.items)
                   \/ options[i].label \in ItemSet(last.items) )

C6_Witness ==
    /\ LastOnList("list_selection_should_be")
    /\ Len(last.items) = 2
    /\ last.items[1] # last.items[2]
    /\ Cardinality(last.before) = 2
    /\ options[1].value = last.items[2]
    /\ options[2].label = last.items[1]
    /\ options[1].label # options[2].label
    /\ last.outcome = "PASS"

\* C7 as stated: on a single-select list select_from_list with items raises
\* ValueError exactly when the last given item is unmatched, and every
\* unmatched item before the last given item is named in a logged warning.
C7_AsStated ==
    ( /\ LastOnList("select_from_list")
      /\ ~is_multiple
      /\ last.items # <<>> )
    => /\ last.outcome = "ValueError" <=> Unmatched(last.items[Len(last.items)])
       /\ last.outcome \in {"ValueError", "PASS"}
       /\ \A k \in 1..(Len(last.items) - 1) :
            Unmatched(last.items[k])
            => \E w \in 1..Len(last.warns) : In(last.items[k], last.warns[w])

\* C8 as stated: on a multi-select list select_from_list with items raises
\* ValueError whenever some item, the empty string included, is unmatched,
\* the error listing every unmatched item; it raises nothing otherwise.
C8_AsStated ==
    ( /\ LastOnList("select_from_list")
      /\ is_multiple
      /\ last.items # <<>> )
    => IF UnmatchedItems(last.items) # <<>>
       THEN /\ last.outcome = "ValueError"
            /\ last.error = UnmatchedItems(last.items)
       ELSE last.outcome = "PASS"

\* C9: on a single-select list the selection after select_from_list with
\* items is the option of the last item that matched, also when the call
\* raised because its last item is unmatched; it is the selection of before
\* when no item matched.
C9_NoRollback ==
    ( /\ LastOnList("select_from_list")
      /\ ~is_multiple
      /\ last.items # <<>> )
    => LET matched == {k \in 1..Len(last.items) : ~Unmatched(last.items[k])}
           lastMatched == CHOOSE k \in matched : \A j \in matched : j <= k
       IN IF matched = {} THEN selected = last.before
          ELSE selected = {OptionOf(last.items[lastMatched])}

C9_Witness ==
    /\ LastOnList("select_from_list")
    /\ ~is_multiple
    /\ Len(last.items) = 2
    /\ ~Unmatched(last.items[1])
    /\ Unmatched(last.items[2])
    /\ last.outcome = "ValueError"
    /\ selected = {OptionOf(last.items[1])}
    /\ selected # last.before

\* C10: select_all_from_list raises RuntimeError on a single-select list,
\* issuing no select call and leaving the selection; on a multi-select list
\* of n options it issues select_by_index(0), ..., select_by_index(n-1) in
\* this order, once each, and every option is selected afterwards.
C10_SelectAll ==
    LastOnList("select_all_from_list")
    => IF is_multiple
       THEN /\ last.outcome = "PASS"
            /\ last.calls = [k \in 1..Len(options) |->
                                Call("select_by_index", "", k - 1)]
            /\ selected = 1..Len(options)
       ELSE /\ last.outcome = "RuntimeError"
            /\ last.calls = <<>>
            /\ selected = last.before

C10_Witness ==
    /\ LastOnList("select_all_from_list")
    /\ is_multiple
    /\ Len(options) = 2
    /\ last.before = {2}
    /\ Len(last.calls) = 2
    /\ last.calls[1].index = 0
    /\ last.calls[2].index = 1
    /\ selected = {1, 2}

\* C11: unselect_from_list with no items leaves a multi-select list with no
\* selected option, whatever was selected; on a single-select list it raises
\* RuntimeError and changes no selection.
C11_UnselectAll ==
    (LastOnList("unselect_from_list") /\ last.items = <<>>)
    => IF is_multiple
       THEN /\ last.outcome = "PASS"
            /\ selected = {}
       ELSE /\ last.outcome = "RuntimeError"
            /\ last.calls = <<>>
            /\ selected = last.before

C11_Witness ==
    /\ LastOnList("unselect_from_list")
    /\ last.items = <<>>
    /\ is_multiple
    /\ Cardinality(last.before) = 2
    /\ selected = {}

\* The driver calls C15 expects of unselect_from_list: for every item in the
\* given order, deselect_by_value and then deselect_by_visible_text.
BothAttempts(items) ==
    LET F[k \in 0..Len(items)] ==
            IF k = 0 THEN <<>>
            ELSE F[k-1] \o <<Call("deselect_by_value", items[k], -1),
                             Call("deselect_by_visible_text", items[k], -1)>>
    IN F[Len(items)]

\* C15: unselect_from_list with items on a multi-select list attempts, for
\* every item in the given order, deselection by value and then by label,
\* whatever the outcome of an attempt; it does not raise; afterwards no
\* selected option has a given item as value or label, and the options
\* matching no item are selected exactly as before.
C15_UnselectItems ==
    ( /\ LastOnList("unselect_from_list")
      /\ is_multiple
      /\ last.items # <<>> )
    => /\ last.outcome = "PASS"
       /\ last.calls = BothAttempts(last.items)
       /\ selected = last.before \
              {i \in 1..Len(options) :
                   \/ options[i].value \in ItemSet(last.items)
                   \/ options[i].label \in ItemSet(last.items)}

C15_Witness ==
    /\ LastOnList("unselect_from_list")
    /\ is_multiple
    /\ deselect_raises
    /\ Len(last.items) = 2
    /\ Unmatched(last.items[1])
    /\ \E i \in last.before :
          /\ options[i].label = last.items[2]
          /\ options[i].value # last.items[2]
          /\ i \notin selected
    /\ selected # {}
    /\ last.outcome = "PASS"

\* select_from_list_by_value with distinct values, all present in the list,
\* passed on a multi-select list that had no selection, and
\* get_selected_list_values was called right after it on the list.
SelectedByValueThenGot ==
    /\ LastOnList("select_from_list_by_value")
    /\ is_multiple
    /\ last.before = {}
    /\ last.items # <<>>
    /\ \A j, k \in 1..Len(last.items) : last.items[j] = last.items[k] => j = k
    /\ \A k \in 1..Len(last.items) :
          \E i \in 1..Len(options) : options[i].value = last.items[k]
    /\ got.called
    /\ got.locator = "list"

\* The values of the options whose value is in vs, in document order.
ValuesInDocumentOrder(vs) ==
    LET F[k \in 0..Len(options)] ==
            IF k = 0 THEN <<>>
            ELSE IF options[k].value \in vs THEN Append(F[k-1], options[k].value)
            ELSE F[k-1]
    IN F[Len(options)]

\* C12 as stated: get_selected_list_values then returns the values in the
\* order in which they were given.
C12_AsStated ==
    SelectedByValueThenGot
    => /\ got.outcome = "PASS"
       /\ got.returned = last.items

\* C12 amended: get_selected_list_values then returns the value of every
\* option whose value is one of the given values, in the order of the
\* options in the list.
C12_ValuesInDocumentOrder ==
    SelectedByValueThenGot
    => /\ got.outcome = "PASS"
       /\ got.returned = ValuesInDocumentOrder(ItemSet(last.items))

C12_Witness ==
    /\ SelectedByValueThenGot
    /\ Len(last.items) = 2
    /\ options[1].value = last.items[2]
    /\ options[2].value = last.items[1]
    /\ got.returned = <<last.items[2], last.items[1]>>

ByEntryKeywords ==
    {"select_from_list_by_index", "select_from_list_by_value",
     "select_from_list_by_label", "unselect_from_list_by_index",
     "unselect_from_list_by_value", "unselect_from_list_by_label"}

UnselectByEntryKeywords ==
    {"unselect_from_list_by_index", "unselect_from_list_by_value",
     "unselect_from_list_by_label"}

\* The deselect call an unselect_from_list_by_* keyword issues for an entry.
DeselectCall(kw, entry) ==
    CASE kw = "unselect_from_list_by_index" ->
             Call("deselect_by_index", "", int(entry))
      [] kw = "unselect_from_list_by_value" ->
             Call("deselect_by_value", entry, -1)
      [] kw = "unselect_from_list_by_label" ->
             Call("deselect_by_visible_text", entry, -1)

\* The entry stands for no option of the list.
NoOption(kw, entry) ==
    CASE kw = "unselect_from_list_by_index" ->
             int(entry) \notin 0..(Len(options) - 1)
      [] kw = "unselect_from_list_by_value" ->
             \A i \in 1..Len(options) : options[i].value # entry
      [] kw = "unselect_from_list_by_label" ->
             \A i \in 1..Len(options) : options[i].label # entry

\* What C16 says of every by-index/value/label keyword called without
\* entries, and of the unselect ones called on a single-select list.
C16_Preconditions ==
    /\ (last.kw \in ByEntryKeywords /\ last.items = <<>>)
       => /\ last.outcome = "ValueError"
          /\ last.calls = <<>>
          /\ selected = last.before
    /\ ( /\ last.kw \in UnselectByEntryKeywords
         /\ last.locator = "list"
         /\ last.items # <<>>
         /\ ~is_multiple )
       => /\ last.outcome = "RuntimeError"
          /\ last.calls = <<>>
          /\ selected = last.before

UnselectByEntryOnMultiple ==
    /\ last.kw \in UnselectByEntryKeywords
    /\ last.locator = "list"
    /\ last.items # <<>>
    /\ is_multiple

\* C16 as stated: besides the preconditions, an unselect_from_list_by_*
\* keyword called with entries on a multi-select list issues one deselect
\* call per entry, in the given order.
C16_AsStated ==
    /\ C16_Preconditions
    /\ UnselectByEntryOnMultiple
       => last.calls = [k \in 1..Len(last.items) |->
                           DeselectCall(last.kw, last.items[k])]

\* C16 amended: besides the preconditions, an unselect_from_list_by_*
\* keyword called with entries on a multi-select list issues the deselect
\* calls of its entries in the given order, up to and including the first
\* entry at which the driver raises NoSuchElementException (an entry that
\* stands for no option, with a driver that raises then); the keyword ends
\* with that exception.  When the driver raises at no entry there is one
\* call per entry and the keyword passes.
C16_UntilDriverRaises ==
    /\ C16_Preconditions
    /\ UnselectByEntryOnMultiple
       => LET failing == {k \in 1..Len(last.items) :
                              deselect_raises /\ NoOption(last.kw, last.items[k])}
              n == IF failing = {} THEN Len(last.items)
                   ELSE CHOOSE k \in failing : \A j \in failing : k <= j
          IN /\ last.calls = [k \in 1..n |-> DeselectCall(last.kw, last.items[k])]
             /\ last.outcome = IF failing = {} THEN "PASS"
                               ELSE "NoSuchElementException"

C16_Witness ==
    /\ UnselectByEntryOnMultiple
    /\ last.kw = "unselect_from_list_by_value"
    /\ deselect_raises
    /\ Len(last.items) = 2
    /\ NoOption(last.kw, last.items[1])
    /\ ~NoOption(last.kw, last.items[2])
    /\ Len(last.calls) = 1
    /\ last.outcome = "NoSuchElementException"

\* The calls of one kind a recorded keyword call issued.
CallsOf(r, op) == LET IsOp(c) == c.op = op IN SelectSeq(r.calls, IsOp)

\* The tags of the elements a locator matches.
TagsAt(locator) == {matches[locator][i] : i \in DOMAIN matches[locator]}

\* The first element of a tag among the matches of a locator.
FirstWithTag(locator, tag) ==
    CHOOSE i \in DOMAIN matches[locator] :
        /\ matches[locator][i] = tag
        /\ \A j \in 1..(i - 1) : matches[locator][j] # tag

\* C13: click_button issues exactly one click, on the input-tagged element
\* matching the locator, whenever one exists (even if a button-tagged element
\* also matches); it looks up and clicks the button-tagged element only when
\* no input-tagged element matches; when neither exists it raises a not-found
\* error and issues no click.
C13_InputThenButton ==
    \A i \in DOMAIN fmHist :
        fmHist[i].kw = "click_button" =>
            LET r == fmHist[i]
                clicks == CallsOf(r, "click")
                IsButtonLookup(c) == c.op = "find_element" /\ c.tag = "button"
                lookups == SelectSeq(r.calls, IsButtonLookup)
            IN /\ "input" \in TagsAt(r.locator) =>
                    /\ r.outcome = "PASS"
                    /\ Len(clicks) = 1
                    /\ clicks[1].tag = "input"
                    /\ clicks[1].element = FirstWithTag(r.locator, "input")
                    /\ lookups = <<>>
               /\ ("input" \notin TagsAt(r.locator)
                        /\ "button" \in TagsAt(r.locator)) =>
                    /\ r.outcome = "PASS"
                    /\ Len(lookups) = 1
                    /\ Len(clicks) = 1
                    /\ clicks[1].tag = "button"
                    /\ clicks[1].element = FirstWithTag(r.locator, "button")
               /\ TagsAt(r.locator) = {} =>
                    /\ r.outcome = "ElementNotFound"
                    /\ clicks = <<>>

\* click_button was called on a locator matching a button-tagged element
\* followed by an input-tagged one, and clicked the input-tagged one; it was
\* then called on a locator matching nothing.
C13_Witness ==
    /\ Len(fmHist) = 2
    /\ fmHist[1].kw = "click_button"
    /\ matches[fmHist[1].locator] = <<"button", "input">>
    /\ CallsOf(fmHist[1], "click") =
           <<DriverCall("click", fmHist[1].locator, "input", 2, "")>>
    /\ fmHist[2].kw = "click_button"
    /\ matches[fmHist[2].locator] = <<>>
    /\ fmHist[2].outcome = "ElementNotFound"

\* C14: choose_file with a file_path that is not an existing local file
\* raises ValueError before the locator is resolved: no find_element and no
\* send_keys call reaches the driver, so a missing file on a missing element
\* yields ValueError and never ElementNotFound; send_keys(file_path) is
\* issued only after the path check passed.
C14_PathCheckedFirst ==
    \A i \in DOMAIN fmHist :
        fmHist[i].kw = "choose_file" =>
            LET r == fmHist[i]
                sent == CallsOf(r, "send_keys")
            IN /\ ~isfile(files, r.file_path) =>
                    /\ r.outcome = "ValueError"
                    /\ r.calls = <<>>
               /\ sent # <<>> =>
                    /\ isfile(files, r.file_path)
                    /\ Len(sent) = 1
                    /\ sent[1].arg = r.file_path
                    /\ r.calls[Len(r.calls)] = sent[1]

\* choose_file was called with a missing file on a locator matching nothing
\* and raised ValueError; it was then called with an existing file on a
\* locator matching an element and sent the path to it.
C14_Witness ==
    /\ Len(fmHist) = 2
    /\ fmHist[1].kw = "choose_file"
    /\ ~isfile(files, fmHist[1].file_path)
    /\ matches[fmHist[1].locator] = <<>>
    /\ fmHist[1].outcome = "ValueError"
    /\ fmHist[2].kw = "choose_file"
    /\ isfile(files, fmHist[2].file_path)
    /\ CallsOf(fmHist[2], "send_keys") # <<>>
    /\ fmHist[2].outcome = "PASS"

\* Some option of the list has the item as its value.
HasValue(item) == \E i \in 1..Len(options) : options[i].value = item

\* The driver calls of a value-first, label-on-failure loop over the items.
ValueFirstCalls(items) ==
    LET F[k \in 0..Len(items)] ==
            IF k = 0 THEN <<>>
            ELSE IF HasValue(items[k])
            THEN Append(F[k-1], Call("select_by_value", items[k], -1))
            ELSE F[k-1] \o <<Call("select_by_value", items[k], -1),
                             Call("select_by_visible_text", items[k], -1)>>
    IN F[Len(items)]

\* Option b carries one of the items as its label, no item is its value,
\* and every item that is its label is the value of another option.
LabelShadowed(b, items) ==
    /\ \E k \in 1..Len(items) : options[b].label = items[k]
    /\ \A k \in 1..Len(items) :
        /\ options[b].value # items[k]
        /\ options[b].label = items[k] => HasValue(items[k])

C18_AsStated ==
    (last.kw = "select_from_list" /\ last.items = <<>>)
    => LET r == select_all_from_list(options, is_multiple, last.before,
                                     last.locator)
       IN /\ last.outcome = r.outcome
          /\ last.calls = r.calls

\* C18: select_from_list called with no items ends as select_all_from_list
\* does (same outcome, same select_by_index calls, same selection) on a
\* multi-select list and on a locator that finds no list; on a single-select
\* list select_all_from_list raises RuntimeError without a driver call while
\* select_from_list issues select_by_index for every index in ascending
\* order and passes, the last option ending up selected.
C18_SameOnMultiSelect ==
    (last.kw = "select_from_list" /\ last.items = <<>>)
    => LET r == select_all_from_list(options, is_multiple, last.before,
                                     last.locator)
       IN IF last.locator = "list" /\ ~is_multiple
          THEN /\ r.outcome = "RuntimeError"
               /\ r.calls = <<>>
               /\ last.outcome = "PASS"
               /\ last.calls = [k \in 1..Len(options) |->
                                   Call("select_by_index", "", k - 1)]
               /\ selected = IF options = <<>> THEN last.before
                             ELSE {Len(options)}
          ELSE /\ last.outcome = r.outcome
               /\ last.calls = r.calls
               /\ selected = r.selected

\* select_from_list was called with no items on a multi-select list of two
\* options, none selected, and selected both.
C18_Witness ==
    /\ LastOnList("select_from_list")
    /\ last.items = <<>>
    /\ is_multiple
    /\ Len(options) = 2
    /\ last.before = {}
    /\ last.outcome = "PASS"
    /\ Len(last.calls) = 2
    /\ selected = {1, 2}

====
